---- MODULE Spec2Model ----
(***************************************************************************)
(* Model of the derive-overwrites attribute macro (src/src/lib.rs).        *)
(*                                                                         *)
(* One invocation of #[generate_overwrites(attr)] on an impl block is one  *)
(* step: the attribute's token stream is parsed by GenerateArgs::parse,    *)
(* the interface name is resolved, the methods are classified, and the     *)
(* output token stream is assembled.  Token streams are sequences of       *)
(* tokens; the output is a sequence of items.                              *)
(***************************************************************************)
EXTENDS Naturals, Sequences, FiniteSets, TLC

\* Bounds of the explored inputs.
MaxArgs == 3
MaxItems == 2

(***************************************************************************)
(* Tokens of the attribute's argument list.                                *)
(***************************************************************************)
IdentTok(s) == [t |-> "Ident", s |-> s]
PunctTok(s) == [t |-> "Punct", s |-> s]
LitStrTok(s) == [t |-> "LitStr", s |-> s]

Eq == PunctTok("=")
Comma == PunctTok(",")

\* The argument forms the inputs are built from.  Each is the token
\* sequence of one argument, without its separator.
ArgForms ==
  { <<IdentTok("default"), Eq, LitStrTok("overwrite")>>,
    <<IdentTok("default"), Eq, LitStrTok("skip")>>,
    <<IdentTok("default"), Eq, LitStrTok("all")>>,
    <<IdentTok("default")>>,
    <<IdentTok("default"), Eq, IdentTok("skip")>>,
    <<IdentTok("name"), Eq, LitStrTok("Custom")>>,
    <<IdentTok("name"), Eq, LitStrTok("Other")>>,
    <<IdentTok("name")>>,
    <<IdentTok("passthrough")>>,
    <<IdentTok("all"), Eq, IdentTok("false")>>,
    <<LitStrTok("passthrough")>> }

\* An argument list: up to MaxArgs arguments, each followed by a comma or
\* by nothing.
Separators == { <<>>, <<Comma>> }

RECURSIVE Flatten(_)
Flatten(parts) ==
  IF parts = <<>> THEN <<>> ELSE Head(parts) \o Flatten(Tail(parts))

SeqsUpTo(S, n) == UNION { [1..k -> S] : k \in 0..n }

ArgLists == SeqsUpTo(ArgForms \X Separators, MaxArgs)

\* The token stream of an argument list.
TokensOf(args) == Flatten([i \in 1..Len(args) |-> args[i][1] \o args[i][2]])

(***************************************************************************)
(* GenerateArgs and its parser.                                            *)
(***************************************************************************)
None == [some |-> FALSE]
Some(v) == [some |-> TRUE, v |-> v]

GenerateArgs(all, passthrough, name) ==
  [all |-> all, passthrough |-> passthrough, name |-> name]

Ok(v) == [ok |-> TRUE, v |-> v]
Err(msg) == [ok |-> FALSE, msg |-> msg]

\* input.peek(Token![,]) followed by input.parse::<Token![,]>()
SkipComma(input) ==
  IF input # <<>> /\ Head(input) = Comma THEN Tail(input) ELSE input

\* A parser that takes any token after `=` for the value.
ParseEqLitStr_any_token(rest) ==
  IF rest = <<>> \/ Head(rest) # Eq THEN Err("expected =")
  ELSE IF Len(rest) < 2 THEN Err("expected string literal")
  ELSE Ok([value |-> rest[2].s, rest |-> SubSeq(rest, 3, Len(rest))])

\* input.parse::<Token![=]>()? ; let value: LitStr = input.parse()?
\* on the stream after the leading identifier.
ParseEqLitStr(rest) ==
  IF rest = <<>> \/ Head(rest) # Eq THEN Err("expected =")
  ELSE IF Len(rest) < 2 \/ rest[2].t # "LitStr" THEN Err("expected string literal")
  ELSE Ok([value |-> rest[2].s, rest |-> SubSeq(rest, 3, Len(rest))])

\* A parse loop that keeps the first name instead of the last.
RECURSIVE ParseLoop_first_name(_, _, _, _)
ParseLoop_first_name(input, all, passthrough, name) ==
  IF input = <<>> THEN Ok(GenerateArgs(all, passthrough, name))
  ELSE IF Head(input).t # "Ident" THEN Err("expected identifier")
  ELSE
    LET ident == Head(input).s
        rest == Tail(input)
        v == ParseEqLitStr(rest)
    IN CASE ident = "default" ->
              (IF ~v.ok THEN v
               ELSE IF v.v.value \in {"overwrite", "skip"}
                    THEN ParseLoop_first_name(SkipComma(v.v.rest),
                                              v.v.value = "overwrite",
                                              passthrough, name)
                    ELSE Err("Expected 'overwrite' or 'skip'"))
         [] ident = "name" ->
              (IF ~v.ok THEN v
               ELSE ParseLoop_first_name(SkipComma(v.v.rest), all, passthrough,
                                         IF name.some THEN name ELSE Some(v.v.value)))
         [] ident = "passthrough" ->
              ParseLoop_first_name(SkipComma(rest), all, TRUE, name)
         [] OTHER -> Err("Unknown argument")

\* The while loop of GenerateArgs::parse, one iteration per unfolding.
RECURSIVE ParseLoop(_, _, _, _)
ParseLoop(input, all, passthrough, name) ==
  IF input = <<>> THEN Ok(GenerateArgs(all, passthrough, name))
  ELSE IF Head(input).t # "Ident" THEN Err("expected identifier")
  ELSE
    LET ident == Head(input).s
        rest == Tail(input)
        v == ParseEqLitStr(rest)
    IN CASE ident = "default" ->
              (IF ~v.ok THEN v
               ELSE IF v.v.value \in {"overwrite", "skip"}
                    THEN ParseLoop(SkipComma(v.v.rest), v.v.value = "overwrite",
                                   passthrough, name)
                    ELSE Err("Expected 'overwrite' or 'skip'"))
         [] ident = "name" ->
              (IF ~v.ok THEN v
               ELSE ParseLoop(SkipComma(v.v.rest), all, passthrough,
                              Some(v.v.value)))
         [] ident = "passthrough" ->
              ParseLoop(SkipComma(rest), all, TRUE, name)
         [] OTHER -> Err("Unknown argument")

Parse(input) == ParseLoop(input, TRUE, FALSE, None)

(***************************************************************************)
(* The impl block the attribute is applied to.                             *)
(***************************************************************************)
Attribute(name) == [path |-> <<name>>]

\* attr.path().is_ident(s): the path is the single segment s.
is_ident(attribute, s) == attribute.path = <<s>>

Visibilities == {"Public", "Restricted", "Inherited"}

\* The attribute lists a method of the explored blocks carries.
AttrLists ==
  { <<>>,
    <<Attribute("skip")>>,
    <<Attribute("overwrite")>>,
    <<Attribute("doc")>>,
    <<Attribute("doc"), Attribute("skip")>>,
    <<Attribute("overwrite"), Attribute("doc")>>,
    <<Attribute("skip"), Attribute("overwrite")>> }

MethodNames == <<"tick", "tick_by", "reset", "value">>

\* The i-th item of a block: a method, or an associated constant.
ImplItemFn(i, vis, attrs) ==
  [kind |-> "Fn", vis |-> vis, attrs |-> attrs,
   sig |-> [ident |-> MethodNames[i]],
   block |-> [stmts |-> <<"body of", MethodNames[i]>>]]

ImplItemConst(i) == [kind |-> "Const", ident |-> MethodNames[i]]

\* Public methods carry every attribute list; the others are explored bare
\* and with the opt-in marker.
ItemShapes ==
  [kind : {"Fn"}, vis : {"Public"}, attrs : AttrLists]
    \cup [kind : {"Fn"}, vis : Visibilities \ {"Public"},
          attrs : {<<>>, <<Attribute("overwrite")>>}]
    \cup {[kind |-> "Const"]}

ImplItem(i, shape) ==
  IF shape.kind = "Fn" THEN ImplItemFn(i, shape.vis, shape.attrs)
  ELSE ImplItemConst(i)

\* Generic parameters with their bounds, and the where clause.
NoGenerics == [params |-> <<>>, where_clause |-> None]
SomeGenerics ==
  [params |-> <<[ident |-> "T", bounds |-> <<"Clone">>]>>,
   where_clause |-> Some(<<"T: Debug">>)]

\* The targets of the explored blocks: self type, generics and span.
WidgetTarget ==
  [self_ty |-> [kind |-> "Path", segments |-> <<[ident |-> "Widget", arguments |-> <<>>]>>],
   generics |-> NoGenerics, span |-> [lo |-> 40, hi |-> 96]]

CounterTarget ==
  [self_ty |-> [kind |-> "Path",
                segments |-> <<[ident |-> "shapes", arguments |-> <<>>],
                               [ident |-> "Counter", arguments |-> <<"T">>]>>],
   generics |-> SomeGenerics, span |-> [lo |-> 12, hi |-> 230]]

TraitObjectTarget ==
  [self_ty |-> [kind |-> "TraitObject", bounds |-> <<"Shape">>],
   generics |-> NoGenerics, span |-> [lo |-> 7, hi |-> 58]]

Targets == { WidgetTarget, CounterTarget, TraitObjectTarget }

ItemImpl(target, items) ==
  [kind |-> "ItemImpl", generics |-> target.generics, trait_ |-> None,
   self_ty |-> target.self_ty, items |-> items, span |-> target.span]

Blocks ==
  { ItemImpl(target, [i \in 1..Len(shapes) |-> ImplItem(i, shapes[i])]) :
      target \in Targets, shapes \in SeqsUpTo(ItemShapes, MaxItems) }

(***************************************************************************)
(* Resolution of the interface name.                                       *)
(***************************************************************************)
Letters ==
  { "a", "b", "c", "d", "e", "f", "g", "h", "i", "j", "k", "l", "m",
    "n", "o", "p", "q", "r", "s", "t", "u", "v", "w", "x", "y", "z",
    "A", "B", "C", "D", "E", "F", "G", "H", "I", "J", "K", "L", "M",
    "N", "O", "P", "Q", "R", "S", "T", "U", "V", "W", "X", "Y", "Z" }
Digits == { "0", "1", "2", "3", "4", "5", "6", "7", "8", "9" }

\* syn::Ident::new(string, span) panics unless the string is an identifier.
IdentNewOk(string) ==
  /\ Len(string) > 0
  /\ SubSeq(string, 1, 1) \in Letters \cup {"_"}
  /\ \A i \in 2..Len(string) : SubSeq(string, i, i) \in Letters \cup Digits \cup {"_"}

\* A resolution that takes the first path segment instead of the last.
struct_name_first_segment(self_ty) ==
  IF self_ty.kind = "Path" THEN Some(self_ty.segments[1].ident) ELSE None

\* Type::Path(type_path) => type_path.path.segments.last().map(|seg| &seg.ident)
struct_name(self_ty) ==
  IF self_ty.kind = "Path"
  THEN Some(self_ty.segments[Len(self_ty.segments)].ident)
  ELSE None

\* The string handed to syn::Ident::new, if any.
trait_name_string(name, self_ty) ==
  IF name.some THEN Some(name.v)
  ELSE IF struct_name(self_ty).some
       THEN Some(struct_name(self_ty).v \o "Overwrites")
       ELSE None

Panics(name, self_ty) ==
  /\ trait_name_string(name, self_ty).some
  /\ ~IdentNewOk(trait_name_string(name, self_ty).v)

trait_name(name, self_ty) == trait_name_string(name, self_ty)

(***************************************************************************)
(* Classification of the methods and assembly of the output.               *)
(***************************************************************************)
has_ignore(method) ==
  \E i \in 1..Len(method.attrs) : is_ident(method.attrs[i], "skip")

has_overwrite(method) ==
  \E i \in 1..Len(method.attrs) : is_ident(method.attrs[i], "overwrite")

is_public(method) == method.vis = "Public"

\* A first loop that does not look at the visibility.
RECURSIVE trait_methods_any_vis(_, _)
trait_methods_any_vis(items, all) ==
  IF items = <<>> THEN <<>>
  ELSE LET item == Head(items)
           pushed ==
             IF /\ item.kind = "Fn"
                /\ \/ all /\ ~has_ignore(item)
                   \/ ~all /\ has_overwrite(item)
             THEN <<[attrs |-> item.attrs, sig |-> item.sig]>>
             ELSE <<>>
       IN pushed \o trait_methods_any_vis(Tail(items), all)

\* The first loop over impl_block.items: the signatures of the trait.
RECURSIVE trait_methods(_, _)
trait_methods(items, all) ==
  IF items = <<>> THEN <<>>
  ELSE LET item == Head(items)
           pushed ==
             IF /\ item.kind = "Fn"
                /\ is_public(item)
                /\ \/ all /\ ~has_ignore(item)
                   \/ ~all /\ has_overwrite(item)
             THEN <<[attrs |-> item.attrs, sig |-> item.sig]>>
             ELSE <<>>
       IN pushed \o trait_methods(Tail(items), all)

\* A second loop that collects the methods in reverse.
RECURSIVE impl_methods_loop_reversed(_, _)
impl_methods_loop_reversed(items, all) ==
  IF items = <<>> THEN <<>>
  ELSE LET item == Head(items)
           pushed ==
             IF /\ item.kind = "Fn"
                /\ is_public(item)
                /\ \/ all /\ ~has_ignore(item)
                   \/ ~all /\ has_overwrite(item)
             THEN <<[attrs |-> item.attrs, sig |-> item.sig, block |-> item.block]>>
             ELSE <<>>
       IN impl_methods_loop_reversed(Tail(items), all) \o pushed

\* The second loop over impl_block.items: the methods of the forwarding impl.
RECURSIVE impl_methods_loop(_, _)
impl_methods_loop(items, all) ==
  IF items = <<>> THEN <<>>
  ELSE LET item == Head(items)
           pushed ==
             IF /\ item.kind = "Fn"
                /\ is_public(item)
                /\ \/ all /\ ~has_ignore(item)
                   \/ ~all /\ has_overwrite(item)
             THEN <<[attrs |-> item.attrs, sig |-> item.sig, block |-> item.block]>>
             ELSE <<>>
       IN pushed \o impl_methods_loop(Tail(items), all)

\* Forwarding methods collected whether or not passthrough was asked for.
impl_methods_always(items, all, passthrough) == Some(impl_methods_loop(items, all))

impl_methods(items, all, passthrough) ==
  IF passthrough THEN Some(impl_methods_loop(items, all)) ELSE None

\* generics.split_for_impl()
impl_generics(generics) == generics.params
ty_generics(generics) == [i \in 1..Len(generics.params) |-> generics.params[i].ident]
where_clause(generics) == generics.where_clause

\* format!("{:?}", impl_block.span())
SpanDebug(span) == "#0 bytes(" \o ToString(span.lo) \o ".." \o ToString(span.hi) \o ")"

CompileError(impl_block) ==
  [kind |-> "ItemMacro", path |-> "compile_error",
   tokens |-> <<LitStrTok("Must overwrite at least one function! {}"), Comma,
                LitStrTok(SpanDebug(impl_block.span))>>]

ItemTrait(ident, impl_block, methods) ==
  [kind |-> "ItemTrait", vis |-> "Public", ident |-> ident,
   generics |-> impl_generics(impl_block.generics),
   where_clause |-> where_clause(impl_block.generics),
   items |-> methods]

ForwardingImpl(ident, impl_block, methods) ==
  [kind |-> "ItemImpl", generics |-> impl_generics(impl_block.generics),
   trait_ |-> Some([ident |-> ident, arguments |-> ty_generics(impl_block.generics)]),
   self_ty |-> impl_block.self_ty,
   where_clause |-> where_clause(impl_block.generics),
   items |-> methods]

trait_and_impl(args, impl_block) ==
  LET tname == trait_name(args.name, impl_block.self_ty)
      tmethods == trait_methods(impl_block.items, args.all)
      imethods == impl_methods(impl_block.items, args.all, args.passthrough)
  IN IF tname.some
     THEN IF tmethods = <<>>
          THEN <<CompileError(impl_block)>>
          ELSE LET base == <<ItemTrait(tname.v, impl_block, tmethods)>>
               IN IF imethods.some
                  THEN base \o <<ForwardingImpl(tname.v, impl_block, imethods.v)>>
                  ELSE base
     ELSE <<>>

\* An output with the original block ahead of what was generated.
expanded_block_first(args, impl_block) == <<impl_block>> \o trait_and_impl(args, impl_block)

expanded(args, impl_block) == trait_and_impl(args, impl_block) \o <<impl_block>>

\* parse_macro_input!: a parse error becomes the whole output.
to_compile_error(msg) ==
  [kind |-> "ItemMacro", path |-> "::core::compile_error",
   tokens |-> <<LitStrTok(msg)>>]

(***************************************************************************)
(* The state machine: one invocation of the attribute macro.               *)
(***************************************************************************)
VARIABLES
  attr,     \* the attribute's arguments: a sequence of <<argument, separator>>
  item,     \* the impl block the attribute is applied to
  pc,       \* "call", "returned" or "panicked"
  args,     \* the GenerateArgs destructured from the parse, once it succeeded
  output    \* the returned token stream, as a sequence of items

vars == <<attr, item, pc, args, output>>

\* A block shaped like the usage example: a skipped method, then an unmarked
\* one.  It is the block of the initial states that vary the argument list.
ExampleBlock ==
  ItemImpl(CounterTarget,
           <<ImplItemFn(1, "Public", <<Attribute("skip")>>),
             ImplItemFn(2, "Public", <<>>)>>)

\* The option combinations the runs that explore blocks are made with:
\* each option absent or present, in the order default, name, passthrough.
Arg(tokens) == <<tokens, <<Comma>>>>

BlockRunArgs ==
  { d \o n \o p :
      d \in { <<>>, <<Arg(<<IdentTok("default"), Eq, LitStrTok("skip")>>)>> },
      n \in { <<>>, <<Arg(<<IdentTok("name"), Eq, LitStrTok("Custom")>>)>>,
              <<Arg(<<IdentTok("name"), Eq, LitStrTok("1x")>>)>> },
      p \in { <<>>, <<Arg(<<IdentTok("passthrough")>>)>> } }

InitArgs ==
  /\ attr \in ArgLists
  /\ item = ExampleBlock

InitBlocks ==
  /\ attr \in BlockRunArgs
  /\ item \in Blocks

Init ==
  /\ InitArgs \/ InitBlocks
  /\ pc = "call"
  /\ args = None
  /\ output = <<>>

\* parse_macro_input!(attr as GenerateArgs) fails: the error is returned.
ParseError ==
  /\ pc = "call"
  /\ ~Parse(TokensOf(attr)).ok
  /\ output' = <<to_compile_error(Parse(TokensOf(attr)).msg)>>
  /\ pc' = "returned"
  /\ UNCHANGED <<attr, item, args>>

\* syn::Ident::new panics on the interface name: nothing is returned.
IdentPanic ==
  /\ pc = "call"
  /\ Parse(TokensOf(attr)).ok
  /\ Panics(Parse(TokensOf(attr)).v.name, item.self_ty)
  /\ args' = Some(Parse(TokensOf(attr)).v)
  /\ pc' = "panicked"
  /\ UNCHANGED <<attr, item, output>>

\* The macro runs to its end and returns the expanded token stream.
Expand ==
  /\ pc = "call"
  /\ Parse(TokensOf(attr)).ok
  /\ ~Panics(Parse(TokensOf(attr)).v.name, item.self_ty)
  /\ args' = Some(Parse(TokensOf(attr)).v)
  /\ output' = expanded(Parse(TokensOf(attr)).v, item)
  /\ pc' = "returned"
  /\ UNCHANGED <<attr, item>>

Next == ParseError \/ IdentPanic \/ Expand

Spec == Init /\ [][Next]_vars

(***************************************************************************)
(* Vocabulary of the properties, stated on the inputs and the output.      *)
(***************************************************************************)
Range(f) == { f[i] : i \in DOMAIN f }

\* The macro parsed its options and returned its expansion.
Expanded == pc = "returned" /\ args.some

Policy == IF args.v.all THEN "Include" ELSE "Exclude"

Skip == Attribute("skip")
Overwrite == Attribute("overwrite")

\* The inclusion rule of the specification, for the item at position i.
Qualifies(i) ==
  LET m == item.items[i]
  IN /\ m.kind = "Fn"
     /\ m.vis = "Public"
     /\ \/ Policy = "Include" /\ Skip \notin Range(m.attrs)
        \/ Policy = "Exclude" /\ Overwrite \in Range(m.attrs)

QualifyingPositions == { i \in 1..Len(item.items) : Qualifies(i) }

\* The artifacts of the output, by kind.
Interfaces == { o \in Range(output) : o.kind = "ItemTrait" }
ForwardingImpls == { o \in Range(output) : o.kind = "ItemImpl" /\ o.trait_.some }
Failures == { o \in Range(output) : o.kind = "ItemMacro" }

Idents(methods) == [k \in 1..Len(methods) |-> methods[k].sig.ident]

\* w occurs in the string s.
Contains(s, w) ==
  \E k \in 1..Len(s) : k + Len(w) - 1 <= Len(s) /\ SubSeq(s, k, k + Len(w) - 1) = w

\* C1: a method is in the generated interface iff an interface is generated
\* and the method is public and (policy Include and no Skip marker, or policy
\* Exclude and an Overwrite marker).
C1_InclusionRule ==
  Expanded =>
    \A i \in 1..Len(item.items) :
      (\E t \in Interfaces :
         item.items[i].kind = "Fn" /\ item.items[i].sig.ident \in Range(Idents(t.items)))
      <=> (Interfaces # {} /\ Qualifies(i))

\* Both policies meet their inert marker and a non-public method: a public
\* method with Skip and Overwrite is included under Exclude while a
\* non-public method with Overwrite is left out.
C1_Witness ==
  /\ Expanded /\ Policy = "Exclude" /\ Len(item.items) = 2
  /\ item.items[1].kind = "Fn" /\ item.items[1].vis = "Public"
  /\ item.items[1].attrs = <<Skip, Overwrite>>
  /\ item.items[2].kind = "Fn" /\ item.items[2].vis = "Restricted"
  /\ item.items[2].attrs = <<Overwrite>>
  /\ \E t \in Interfaces : Idents(t.items) = <<MethodNames[1]>>

\* C2: whenever no method qualifies, the output holds no interface and no
\* forwarding implementation, and holds a failure whose message contains
\* "overwrite" and the representation of the block's span.
C2_EmptySetFailure ==
  (Expanded /\ QualifyingPositions = {}) =>
    /\ Interfaces = {}
    /\ ForwardingImpls = {}
    /\ \E f \in Failures :
         /\ \E k \in 1..Len(f.tokens) : Contains(f.tokens[k].s, "overwrite")
         /\ \E k \in 1..Len(f.tokens) : f.tokens[k].s = SpanDebug(item.span)

\* C3: a target that is not a path type, with no name option, yields a
\* failure in the output.
C3_UnresolvedTargetFailure ==
  (Expanded /\ item.self_ty.kind # "Path" /\ ~args.v.name.some) => Failures # {}

NonMarkerAttrs(attrs) == SelectSeq(attrs, LAMBDA a : a \notin {Skip, Overwrite})

C5_NoMarkerOnInterface ==
  Expanded =>
    \A t \in Interfaces : \A k \in 1..Len(t.items) :
      \E i \in 1..Len(item.items) :
        /\ item.items[i].kind = "Fn"
        /\ item.items[i].sig = t.items[k].sig
        /\ t.items[k].attrs = NonMarkerAttrs(item.items[i].attrs)

(***************************************************************************)
(* The arguments as the specification reads them.                          *)
(***************************************************************************)
Argument(i) == attr[i][1]

HasValue(a) == Len(a) >= 3 /\ a[2] = Eq /\ a[3].t = "LitStr"

UnknownLeading(a) ==
  a[1].t # "Ident" \/ a[1].s \notin {"default", "name", "passthrough"}

MalformedDefault(a) ==
  a[1] = IdentTok("default") /\ HasValue(a) /\ a[3].s \notin {"overwrite", "skip"}

MissingValue(a) ==
  a[1] \in {IdentTok("default"), IdentTok("name")} /\ ~HasValue(a)

BadArgument(a) == UnknownLeading(a) \/ MalformedDefault(a) \/ MissingValue(a)

ArgumentsOf(key) == { i \in 1..Len(attr) : Argument(i)[1] = IdentTok(key) }

Last(S) == CHOOSE i \in S : \A j \in S : j <= i

\* The output is the parse error alone.
OnlyParseError ==
  /\ Len(output) = 1
  /\ output[1].kind = "ItemMacro"
  /\ output[1].path = "::core::compile_error"

NameOption ==
  IF ArgumentsOf("name") = {} THEN None
  ELSE Some(Argument(Last(ArgumentsOf("name")))[3].s)

SimpleName == item.self_ty.segments[Len(item.self_ty.segments)].ident

\* C7: the interface is named by the name option when one is supplied, and
\* otherwise by the last segment of the target type followed by "Overwrites".
C7_InterfaceName ==
  Expanded =>
    \A t \in Interfaces :
      /\ t.ident = IF NameOption.some THEN NameOption.v
                   ELSE SimpleName \o "Overwrites"
      /\ (~NameOption.some /\ item.self_ty.kind = "Path" /\ SimpleName = "Widget")
           => t.ident = "WidgetOverwrites"

\* A derived name on a target whose path has two segments.
C7_Witness ==
  /\ Expanded /\ ~NameOption.some
  /\ item.self_ty.kind = "Path" /\ Len(item.self_ty.segments) = 2
  /\ \E t \in Interfaces : t.ident = "CounterOverwrites"

\* The qualifying methods' names, in declaration order.
QualifyingIdents ==
  LET pos == SelectSeq([i \in 1..Len(item.items) |-> i], Qualifies)
  IN [k \in 1..Len(pos) |-> item.items[pos[k]].sig.ident]

\* C8: when a forwarding implementation is generated, its method names and
\* the interface's are the same sequence: the qualifying methods of the
\* block in declaration order.
C8_SameMethodsInOrder ==
  Expanded =>
    \A f \in ForwardingImpls :
      /\ Interfaces # {}
      /\ Idents(f.items) = QualifyingIdents
      /\ \A t \in Interfaces : Idents(t.items) = QualifyingIdents

\* Two qualifying methods, forwarded in declaration order.
C8_Witness ==
  /\ Expanded
  /\ \E f \in ForwardingImpls : Idents(f.items) = <<MethodNames[1], MethodNames[2]>>

\* C9: a forwarding implementation is in the output iff passthrough was
\* supplied, the interface name resolves and some method qualifies; it
\* implements the resolved interface for the block's target with the block's
\* generics and where clause, and its methods carry the original bodies.
NameResolves == NameOption.some \/ item.self_ty.kind = "Path"

ExpectedArgs ==
  [all |-> IF ArgumentsOf("default") = {} THEN TRUE
           ELSE Argument(Last(ArgumentsOf("default")))[3].s = "overwrite",
   passthrough |-> ArgumentsOf("passthrough") # {},
   name |-> NameOption]

RepeatedWithOtherValue ==
  \E i, j \in 1..Len(attr) :
    /\ Argument(i)[1] = Argument(j)[1]
    /\ Len(Argument(i)) >= 3 /\ Len(Argument(j)) >= 3
    /\ Argument(i)[3] # Argument(j)[3]

Reorderings(n) == { p \in [1..n -> 1..n] : \A i, j \in 1..n : p[i] = p[j] => i = j }

\* C10: repeated options are never rejected: a list of valid arguments
\* parses to the last default (Include if none), the last name (None if
\* none) and passthrough iff it occurs; permuting the arguments changes the
\* configuration for some permutation iff a default or name is repeated
\* with another value.
C10_RepeatedOptions ==
  (pc # "call" /\ \A i \in 1..Len(attr) : ~BadArgument(Argument(i))) =>
    /\ args = Some(ExpectedArgs)
    /\ (\A p \in Reorderings(Len(attr)) :
          Parse(TokensOf([i \in 1..Len(attr) |-> attr[p[i]]])) = Ok(args.v))
         <=> ~RepeatedWithOtherValue

\* Both options repeated with other values, and passthrough.
C10_Witness ==
  /\ pc = "returned" /\ Len(attr) = 3
  /\ Argument(1) = <<IdentTok("name"), Eq, LitStrTok("Custom")>>
  /\ Argument(2) = <<IdentTok("passthrough")>>
  /\ Argument(3) = <<IdentTok("name"), Eq, LitStrTok("Other")>>
  /\ args = Some([all |-> TRUE, passthrough |-> TRUE, name |-> Some("Other")])

====
